---- MODULE Spec2Model ----
(***************************************************************************)
(* A model of three small programs of the Outpost Python SDK tree:         *)
(*   - scripts/patch_pyproject_readme.py   (SpecPatch)                     *)
(*   - examples/sdk-python/example/auth.py (SpecExample, FairSpecExample)  *)
(*   - outpost_sdk/errors/notfound_error.py (SpecNotFound)                 *)
(* Python str values that are scanned character by character are          *)
(* sequences of one-character strings; Optional[str] values are sequences  *)
(* of length 0 (None) or 1 (the string).                                   *)
(***************************************************************************)
EXTENDS Integers, Sequences, FiniteSets, TLC

VARIABLES
    prog,      \* which program this behaviour runs: "patch", "example", "notfound"
    file,      \* patch: content of pyproject.toml on disk
    runs,      \* patch: one record per completed call of main()
    pc,        \* example / notfound: position in the program
    env,       \* example: the environment after load_dotenv()
    admin,     \* example: the admin-key Outpost client
    jwtc,      \* example: the JWT Outpost client
    trace,     \* example: client and API events, in order
    out,       \* example: lines written to stdout
    exitCode,  \* example: status given to sys.exit, -1 while none
    nf         \* notfound: constructor arguments and the resulting message

vars == <<prog, file, runs, pc, env, admin, jwtc, trace, out, exitCode, nf>>

\* ------------------------------------------------------------------------
\* Bounds of the model
\* ------------------------------------------------------------------------

\* number of chunks an initial pyproject.toml is assembled from
MaxChunks == 3
\* number of successive calls of main() in one behaviour
MaxRuns == 2

\* ------------------------------------------------------------------------
\* Python values
\* ------------------------------------------------------------------------

None == <<>>

Some(s) == <<s>>

\* Python truth value of an Optional[str]: None and "" are falsy
Truthy(o) == o # None /\ o[1] # ""

\* ------------------------------------------------------------------------
\* patch_pyproject_readme.py
\* ------------------------------------------------------------------------

\* 'readme = "README-PYPI.md"'
OLD == <<"r","e","a","d","m","e"," ","="," ","\"",
         "R","E","A","D","M","E","-","P","Y","P","I",".","m","d","\"">>

\* NEW = 'readme = "README.md"' (NEW is a reserved word of TLA+)
NEW_ == <<"r","e","a","d","m","e"," ","="," ","\"",
         "R","E","A","D","M","E",".","m","d","\"">>

\* s[i:].startswith(p)
StartsWithAt(s, p, i) ==
    /\ i + Len(p) - 1 <= Len(s)
    /\ \A k \in 1..Len(p) : s[i + k - 1] = p[k]

\* str.find as a left-to-right scan from position i: the first index >= i at
\* which p occurs in s, 0 when there is none
RECURSIVE Find(_, _, _)
Find(s, p, i) ==
    IF i + Len(p) - 1 > Len(s) THEN 0
    ELSE IF StartsWithAt(s, p, i) THEN i
    ELSE Find(s, p, i + 1)

\* p in s
Contains(s, p) == Find(s, p, 1) # 0

\* s.replace(old, new) with no count: every occurrence, left to right
RECURSIVE ReplaceAll(_, _, _)
ReplaceAll(s, old, new) ==
    LET i == Find(s, old, 1) IN
    IF i = 0 THEN s
    ELSE SubSeq(s, 1, i - 1) \o new
         \o ReplaceAll(SubSeq(s, i + Len(old), Len(s)), old, new)

\* arguments swapped: s.replace(new, old, 1)
ReplaceSwapped(s, old, new) ==
    LET i == Find(s, new, 1) IN
    IF i = 0 THEN s
    ELSE SubSeq(s, 1, i - 1) \o old \o SubSeq(s, i + Len(new), Len(s))

\* s.replace(old, new, 1)
ReplaceFirst(s, old, new) ==
    LET i == Find(s, old, 1) IN
    IF i = 0 THEN s
    ELSE SubSeq(s, 1, i - 1) \o new \o SubSeq(s, i + Len(old), Len(s))

\* The OSError, if any, that the operating system raises during one call:
\*   "none"        no call raises
\*   "read_fails"  open(PYPROJECT, "r") or f.read() raises
\*   "open_fails"  open(PYPROJECT, "w") raises: the file is not truncated
\*   "write_fails" open(PYPROJECT, "w") truncated the file, then f.write or
\*                 the close at the end of the with block raises
IOOutcomes == { "none", "read_fails", "open_fails", "write_fails" }

\* main() without the 'Already patched' branch
MainNoAlreadyCheck(f, io, cut) ==
    IF io = "read_fails" THEN [ret |-> 1, file |-> f, wrote |-> FALSE]
    ELSE IF ~Contains(f, OLD) THEN [ret |-> 1, file |-> f, wrote |-> FALSE]
    ELSE LET content == ReplaceFirst(f, OLD, NEW_) IN
         IF io = "open_fails" THEN [ret |-> 1, file |-> f, wrote |-> FALSE]
         ELSE IF io = "write_fails"
              THEN [ret |-> 1, file |-> SubSeq(content, 1, cut), wrote |-> TRUE]
              ELSE [ret |-> 0, file |-> content, wrote |-> TRUE]

\* main() with the OSError of the write swallowed
MainWriteErrorIgnored(f, io, cut) ==
    IF io = "read_fails" THEN [ret |-> 1, file |-> f, wrote |-> FALSE]
    ELSE IF ~Contains(f, OLD)
         THEN IF Contains(f, NEW_)
              THEN [ret |-> 0, file |-> f, wrote |-> FALSE]
              ELSE [ret |-> 1, file |-> f, wrote |-> FALSE]
    ELSE LET content == ReplaceFirst(f, OLD, NEW_) IN
         IF io = "open_fails" THEN [ret |-> 1, file |-> f, wrote |-> FALSE]
         ELSE IF io = "write_fails"
              THEN [ret |-> 0, file |-> SubSeq(content, 1, cut), wrote |-> TRUE]
              ELSE [ret |-> 0, file |-> content, wrote |-> TRUE]

\* What one call of main() does to a file holding f under I/O outcome io;
\* cut is the number of characters that reached the disk before a failed
\* write. The result: the return value, the file afterwards, whether the
\* file was opened for writing.
Main(f, io, cut) ==
    IF io = "read_fails" THEN [ret |-> 1, file |-> f, wrote |-> FALSE]
    ELSE IF ~Contains(f, OLD)
         THEN IF Contains(f, NEW_)
              THEN [ret |-> 0, file |-> f, wrote |-> FALSE]
              ELSE [ret |-> 1, file |-> f, wrote |-> FALSE]
    ELSE LET content == ReplaceFirst(f, OLD, NEW_) IN
         IF io = "open_fails" THEN [ret |-> 1, file |-> f, wrote |-> FALSE]
         ELSE IF io = "write_fails"
              THEN [ret |-> 1, file |-> SubSeq(content, 1, cut), wrote |-> TRUE]
              ELSE [ret |-> 0, file |-> content, wrote |-> TRUE]

\* Pieces initial files are assembled from: the two readme lines, a line
\* break, and fragments of the readme lines that join into them or fall short
Chunks ==
    { OLD, NEW_, <<"\n">>,
      SubSeq(OLD, 1, 16),              \* 'readme = "README'
      SubSeq(OLD, 17, Len(OLD)),       \* '-PYPI.md"'
      SubSeq(NEW_, 17, Len(NEW_)) }      \* '.md"'

RECURSIVE Concats(_)
Concats(n) ==
    IF n = 0 THEN { <<>> }
    ELSE LET shorter == Concats(n - 1) IN
         shorter \cup { s \o c : s \in shorter, c \in Chunks }

\* the initial contents of pyproject.toml
Contents == Concats(MaxChunks)

InitPatch ==
    /\ prog = "patch"
    /\ file \in Contents
    /\ runs = <<>>
    /\ pc = "none"
    /\ env = <<>> /\ admin = <<>> /\ jwtc = <<>> /\ trace = <<>> /\ out = <<>>
    /\ exitCode = -1
    /\ nf = <<>>

\* Whether main() on f reaches the step at which outcome io strikes
Reached(f, io) ==
    \/ io \in { "none", "read_fails" }
    \/ io \in { "open_fails", "write_fails" } /\ Contains(f, OLD)

\* python patch_pyproject_readme.py, run to completion. The script is run
\* again only after runs that met no OSError: a run that met one ends the
\* behaviour.
RunMain ==
    /\ prog = "patch"
    /\ Len(runs) < MaxRuns
    /\ \A k \in 1..Len(runs) : runs[k].io = "none"
    /\ \E io \in IOOutcomes :
          /\ Reached(file, io)
          /\ \E cut \in IF io = "write_fails"
                        THEN 0..Len(ReplaceFirst(file, OLD, NEW_)) ELSE { 0 } :
                LET r == Main(file, io, cut) IN
                /\ file' = r.file
                /\ runs' = Append(runs, [before |-> file, after |-> r.file,
                                         ret |-> r.ret, wrote |-> r.wrote,
                                         io |-> io])
    /\ UNCHANGED <<prog, pc, env, admin, jwtc, trace, out, exitCode, nf>>

NextPatch == RunMain

SpecPatch == InitPatch /\ [][NextPatch]_vars

\* ------------------------------------------------------------------------
\* example/auth.py
\* ------------------------------------------------------------------------

EnvNames == { "ADMIN_API_KEY", "TENANT_ID", "SERVER_URL" }

\* what os.getenv can return for each variable: None, "" or a value
EnvValues ==
    [ ADMIN_API_KEY |-> { None, Some(""), Some("key") },
      TENANT_ID     |-> { None, Some(""), Some("t1"), Some("t2") },
      SERVER_URL    |-> { None, Some(""), Some("http://a"), Some("http://b") } ]

\* a client that was never constructed
NoClient == [state |-> "none", server_url |-> "", security |-> ""]

\* what tenants.get_token can return: None, an object without a token
\* attribute, or an object whose token is None, "" or a JWT
TokenResults ==
    { [isNone |-> TRUE,  hasToken |-> FALSE, token |-> None],
      [isNone |-> FALSE, hasToken |-> FALSE, token |-> None],
      [isNone |-> FALSE, hasToken |-> TRUE,  token |-> None],
      [isNone |-> FALSE, hasToken |-> TRUE,  token |-> Some("")],
      [isNone |-> FALSE, hasToken |-> TRUE,  token |-> Some("jwt1")] }

NoRes == [isNone |-> TRUE, hasToken |-> FALSE, token |-> None]

\* the messages of the exceptions an API call can raise
Errors == { "boom" }

\* one entry of the event trace
Event(ev, client, arg, raised, res) ==
    [ev |-> ev, client |-> client, arg |-> arg, raised |-> raised, res |-> res]

\* the wrong order: TENANT_ID is looked at first
FirstMissingTenantFirst(e) ==
    IF ~Truthy(e["TENANT_ID"]) THEN "TENANT_ID"
    ELSE IF ~Truthy(e["ADMIN_API_KEY"]) THEN "ADMIN_API_KEY"
    ELSE IF ~Truthy(e["SERVER_URL"]) THEN "SERVER_URL"
    ELSE ""

\* the three `if not ...` checks of run(): the variable whose check exits,
\* "" when all three pass
FirstMissing(e) ==
    IF ~Truthy(e["ADMIN_API_KEY"]) THEN "ADMIN_API_KEY"
    ELSE IF ~Truthy(e["TENANT_ID"]) THEN "TENANT_ID"
    ELSE IF ~Truthy(e["SERVER_URL"]) THEN "SERVER_URL"
    ELSE ""

\* the check reduced to `token_res is not None`
HasUsableTokenNotNone(res) == ~res.isNone

\* token_res and hasattr(token_res, "token") and token_res.token
HasUsableToken(res) == ~res.isNone /\ res.hasToken /\ Truthy(res.token)

\* server_url left out: the SDK's default server
JwtServerUrlOmitted(client) == "<default>"

\* the server_url argument of the JWT client
JwtServerUrl(client) == client.server_url

\* with_admin_api_key without its try/except
CatchesOnlyJwt(site) == IF site = "jwt_list" THEN "with_jwt" ELSE "none"

\* The function whose `except Exception` clause catches an Exception raised
\* by the API call at site; "none" when no clause does.
Catches(site) ==
    IF site = "jwt_list" THEN "with_jwt" ELSE "with_admin_api_key"

InitExample ==
    /\ prog = "example"
    /\ pc = "start"
    /\ env \in [EnvNames -> UNION { EnvValues[n] : n \in EnvNames }]
    /\ \A n \in EnvNames : env[n] \in EnvValues[n]
    /\ admin = NoClient
    /\ jwtc = NoClient
    /\ trace = <<>>
    /\ out = <<>>
    /\ exitCode = -1
    /\ file = <<>> /\ runs = <<>> /\ nf = <<>>

\* run() up to the first API call: the three checks, the admin client, the
\* entry into its with block and the first line of with_admin_api_key
RunStart ==
    /\ prog = "example" /\ pc = "start"
    /\ LET missing == FirstMissing(env) IN
       IF missing # ""
       THEN /\ out' = Append(out, "Error: " \o missing \o " not set.")
            /\ exitCode' = 1
            /\ pc' = "exited"
            /\ UNCHANGED <<admin, jwtc, trace>>
       ELSE LET api_server_url == env["SERVER_URL"][1] \o "/api/v1" IN
            /\ admin' = [state |-> "open", server_url |-> api_server_url,
                         security |-> "admin_api_key"]
            /\ trace' = Append(trace,
                   Event("open", "admin", Some(api_server_url), FALSE, NoRes))
            /\ out' = Append(out, "--- Running with Admin API Key ---")
            /\ pc' = "health"
            /\ UNCHANGED <<jwtc, exitCode>>
    /\ UNCHANGED <<env, prog, file, runs, nf>>

\* An Exception with message e raised by the API call at site, recorded as
\* event ev: control goes to the except clause that catches it, through the
\* with blocks in between, which close their clients.
Raised(site, ev, e) ==
    LET t1 == Append(trace, ev)
        jwtOpen == jwtc.state = "open"
        closeJwt == Event("close", "jwt", None, FALSE, NoRes)
        closeAdmin == Event("close", "admin", None, FALSE, NoRes)
    IN CASE Catches(site) = "with_jwt" ->
              /\ trace' = t1
              /\ out' = Append(out, "Error listing destinations with JWT: " \o e)
              /\ pc' = "jwt_exit"
              /\ UNCHANGED <<admin, jwtc, exitCode>>
         [] Catches(site) = "with_admin_api_key" ->
              /\ trace' = IF jwtOpen THEN Append(t1, closeJwt) ELSE t1
              /\ jwtc' = IF jwtOpen THEN [jwtc EXCEPT !.state = "closed"] ELSE jwtc
              /\ out' = Append(out, "Error during admin operations: " \o e)
              /\ pc' = "admin_exit"
              /\ UNCHANGED <<admin, exitCode>>
         [] OTHER ->
              /\ trace' = IF jwtOpen THEN t1 \o <<closeJwt, closeAdmin>>
                          ELSE Append(t1, closeAdmin)
              /\ jwtc' = IF jwtOpen THEN [jwtc EXCEPT !.state = "closed"] ELSE jwtc
              /\ admin' = [admin EXCEPT !.state = "closed"]
              /\ pc' = "crashed"
              /\ UNCHANGED <<out, exitCode>>

\* outpost.health.check() and the two prints after it
HealthCheck ==
    /\ prog = "example" /\ pc = "health"
    /\ \/ /\ trace' = Append(trace,
                 Event("health.check", "admin", None, FALSE, NoRes))
          /\ out' = out \o <<"Health check result:", "<health_res>">>
          /\ pc' = "list"
          /\ UNCHANGED <<admin, jwtc, exitCode>>
       \/ \E e \in Errors :
             Raised("health", Event("health.check", "admin", None, TRUE, NoRes), e)
    /\ UNCHANGED <<env, prog, file, runs, nf>>

\* outpost.destinations.list(tenant_id=tenant_id) and the two prints after it
DestinationsList ==
    /\ prog = "example" /\ pc = "list"
    /\ LET tenant_id == env["TENANT_ID"] IN
       \/ /\ trace' = Append(trace,
                 Event("destinations.list", "admin", tenant_id, FALSE, NoRes))
          /\ out' = out \o
                 << "Destinations listed successfully using Admin Key for tenant "
                        \o tenant_id[1] \o ":",
                    "<destinations_res>" >>
          /\ pc' = "get_token"
          /\ UNCHANGED <<admin, jwtc, exitCode>>
       \/ \E e \in Errors :
             Raised("list",
                    Event("destinations.list", "admin", tenant_id, TRUE, NoRes), e)
    /\ UNCHANGED <<env, prog, file, runs, nf>>

\* outpost.tenants.get_token(tenant_id=tenant_id), the two prints after it,
\* and the if: the JWT client is constructed and its with block entered, or
\* the else branch prints
GetToken ==
    /\ prog = "example" /\ pc = "get_token"
    /\ LET tenant_id == env["TENANT_ID"] IN
       \/ \E res \in TokenResults :
             LET call == Event("tenants.get_token", "admin", tenant_id, FALSE, res)
                 lines == << "Tenant token obtained for tenant "
                                 \o tenant_id[1] \o ":",
                             "<token_res>" >>
             IN IF HasUsableToken(res)
                THEN /\ jwtc' = [state |-> "open",
                                 server_url |-> JwtServerUrl(admin),
                                 security |-> "tenant_jwt"]
                     /\ trace' = trace \o
                            << call,
                               Event("open", "jwt", Some(JwtServerUrl(admin)),
                                     FALSE, NoRes) >>
                     /\ out' = out \o lines \o <<"--- Running with Tenant JWT ---">>
                     /\ pc' = "jwt_list"
                     /\ UNCHANGED <<admin, exitCode>>
                ELSE /\ trace' = Append(trace, call)
                     /\ out' = out \o lines \o <<"Could not obtain tenant token.">>
                     /\ pc' = "admin_exit"
                     /\ UNCHANGED <<admin, jwtc, exitCode>>
       \/ \E e \in Errors :
             Raised("get_token",
                    Event("tenants.get_token", "admin", tenant_id, TRUE, NoRes), e)
    /\ UNCHANGED <<env, prog, file, runs, nf>>

\* with_jwt: outpost.destinations.list() on the JWT client and its prints
JwtDestinationsList ==
    /\ prog = "example" /\ pc = "jwt_list"
    /\ \/ /\ trace' = Append(trace,
                 Event("destinations.list", "jwt", None, FALSE, NoRes))
          /\ out' = out \o << "Destinations listed successfully using JWT:",
                              "<destinations_res>" >>
          /\ pc' = "jwt_exit"
          /\ UNCHANGED <<admin, jwtc, exitCode>>
       \/ \E e \in Errors :
             Raised("jwt_list",
                    Event("destinations.list", "jwt", None, TRUE, NoRes), e)
    /\ UNCHANGED <<env, prog, file, runs, nf>>

\* the end of `with Outpost(...) as jwt_outpost`
JwtExit ==
    /\ prog = "example" /\ pc = "jwt_exit"
    /\ jwtc' = [jwtc EXCEPT !.state = "closed"]
    /\ trace' = Append(trace, Event("close", "jwt", None, FALSE, NoRes))
    /\ pc' = "admin_exit"
    /\ UNCHANGED <<admin, out, exitCode, env, prog, file, runs, nf>>

\* the end of `with Outpost(...) as outpost` and the last print of run()
AdminExit ==
    /\ prog = "example" /\ pc = "admin_exit"
    /\ admin' = [admin EXCEPT !.state = "closed"]
    /\ trace' = Append(trace, Event("close", "admin", None, FALSE, NoRes))
    /\ out' = Append(out, "--- Example finished ---")
    /\ pc' = "finished"
    /\ UNCHANGED <<jwtc, exitCode, env, prog, file, runs, nf>>

NextExample ==
    \/ RunStart
    \/ HealthCheck
    \/ DestinationsList
    \/ GetToken
    \/ JwtDestinationsList
    \/ JwtExit
    \/ AdminExit

SpecExample == InitExample /\ [][NextExample]_vars

\* the interpreter keeps executing the script, and every API call returns
\* or raises
FairSpecExample == SpecExample /\ WF_vars(NextExample)

\* ------------------------------------------------------------------------
\* errors/notfound_error.py
\* ------------------------------------------------------------------------

\* data.message as the server can send it
DataMessages == { None, Some(""), Some("tenant not found"), Some("no such route") }

\* the body argument
Bodies == { None, Some(""), Some("{\"message\": null}"), Some("404 page") }

\* raw_response.text
ResponseTexts == { "", "raw 404", "{\"status\": 404}", "<html>" }

\* Python str(x) of an Optional[str]
Str(o) == IF o = None THEN "None" ELSE o[1]

\* a or b, on str
OrStr(a, b) == IF a # "" THEN a ELSE b

\* lines 31-32 of NotFoundError.__init__: the message handed to
\* OutpostError.__init__
NotFoundMessage(data_message, body, text) ==
    LET fallback == IF Truthy(body) THEN body[1] ELSE text
    IN OrStr(Str(data_message), fallback)

InitNotFound ==
    /\ prog = "notfound"
    /\ pc = "raising"
    /\ nf \in [data_message : DataMessages, body : Bodies,
               text : ResponseTexts, message : { None }]
    /\ file = <<>> /\ runs = <<>>
    /\ env = <<>> /\ admin = <<>> /\ jwtc = <<>> /\ trace = <<>> /\ out = <<>>
    /\ exitCode = -1

\* NotFoundError(data, raw_response, body)
NotFoundErrorInit ==
    /\ prog = "notfound" /\ pc = "raising"
    /\ nf' = [nf EXCEPT !.message =
                  Some(NotFoundMessage(nf.data_message, nf.body, nf.text))]
    /\ pc' = "constructed"
    /\ UNCHANGED <<prog, file, runs, env, admin, jwtc, trace, out, exitCode>>

NextNotFound == NotFoundErrorInit

SpecNotFound == InitNotFound /\ [][NextNotFound]_vars

\* ------------------------------------------------------------------------
\* Properties of patch_pyproject_readme.py
\* ------------------------------------------------------------------------

\* the positions at which p occurs in s
Occ(s, p) == { i \in 1..(Len(s) - Len(p) + 1) : SubSeq(s, i, i + Len(p) - 1) = p }

Least(S) == CHOOSE i \in S : \A j \in S : i <= j

Run(k) == runs[k]

\* C1, as stated: whenever main() returns 0 the file afterwards contains
\* readme = "README.md" and no occurrence of readme = "README-PYPI.md".
C1_NoOldAfterSuccess ==
    \A k \in 1..Len(runs) :
        Run(k).ret = 0 =>
            /\ Occ(Run(k).after, NEW_) # {}
            /\ Occ(Run(k).after, OLD) = {}

\* C1, amended: whenever main() returns 0 the file afterwards contains
\* readme = "README.md", and it contains no readme = "README-PYPI.md" provided
\* the file held at most one occurrence of it before the call.
C1_NewAfterSuccess ==
    \A k \in 1..Len(runs) :
        Run(k).ret = 0 =>
            /\ Occ(Run(k).after, NEW_) # {}
            /\ Cardinality(Occ(Run(k).before, OLD)) <= 1
                   => Occ(Run(k).after, OLD) = {}

\* a run that patched a file holding exactly one old readme line
C1_Witness ==
    \E k \in 1..Len(runs) :
        /\ Run(k).ret = 0 /\ Run(k).wrote
        /\ Cardinality(Occ(Run(k).before, OLD)) = 1

\* C2, as stated: without I/O failures a second run leaves the content the
\* first run left, and after a first run that returned 0 the second returns
\* 0 without writing.
C2_Idempotent ==
    \A k \in 1..(Len(runs) - 1) :
        (Run(k).io = "none" /\ Run(k + 1).io = "none") =>
            /\ Run(k + 1).after = Run(k).after
            /\ Run(k).ret = 0 => (Run(k + 1).ret = 0 /\ ~Run(k + 1).wrote)

\* C2, amended: the same, for files that hold at most one occurrence of
\* readme = "README-PYPI.md" before the first of the two runs.
C2_IdempotentSingle ==
    \A k \in 1..(Len(runs) - 1) :
        ( /\ Run(k).io = "none" /\ Run(k + 1).io = "none"
          /\ Cardinality(Occ(Run(k).before, OLD)) <= 1 ) =>
            /\ Run(k + 1).after = Run(k).after
            /\ Run(k).ret = 0 => (Run(k + 1).ret = 0 /\ ~Run(k + 1).wrote)

\* a first run patched the single old readme line and a second run followed
C2_Witness ==
    /\ Len(runs) >= 2
    /\ Cardinality(Occ(Run(1).before, OLD)) = 1
    /\ Run(1).ret = 0 /\ Run(1).wrote /\ Run(1).io = "none"
    /\ Run(2).ret = 0 /\ Run(2).io = "none"

C8_FailureLeavesFile ==
    \A k \in 1..Len(runs) : Run(k).ret = 1 => Run(k).after = Run(k).before

\* ------------------------------------------------------------------------
\* Properties of example/auth.py
\* ------------------------------------------------------------------------

\* the API calls of the trace, in order
ApiCalls == SelectSeq(trace, LAMBDA ev : ev.ev \notin { "open", "close" })

\* the variables that are unset or empty
Unset == { n \in EnvNames : env[n] = None \/ env[n] = Some("") }

IndexOf(ev, client) ==
    CHOOSE i \in 1..Len(trace) : trace[i].ev = ev /\ trace[i].client = client

\* C4: if ADMIN_API_KEY, TENANT_ID or SERVER_URL is unset or empty, run()
\* exits with status 1 before any client is constructed and before any API
\* call; the variables are checked in that order and only the first missing
\* one is reported.
C4_MissingEnvExits ==
    (Unset # {} /\ pc # "start") =>
        LET first == IF "ADMIN_API_KEY" \in Unset THEN "ADMIN_API_KEY"
                     ELSE IF "TENANT_ID" \in Unset THEN "TENANT_ID"
                     ELSE "SERVER_URL"
        IN /\ pc = "exited"
           /\ exitCode = 1
           /\ trace = <<>>
           /\ admin.state = "none" /\ jwtc.state = "none"
           /\ out = << "Error: " \o first \o " not set." >>

\* run() has exited with ADMIN_API_KEY set and two later variables missing
C4_Witness ==
    /\ pc = "exited"
    /\ Unset = { "TENANT_ID", "SERVER_URL" }

\* C5: the API calls happen in the order health.check, destinations.list
\* (tenant_id), tenants.get_token(tenant_id), JWT destinations.list; each is
\* made only if every earlier one returned without raising; the JWT call is
\* made only if get_token returned a result with a non-empty token, and
\* otherwise 'Could not obtain tenant token.' is printed and no JWT client
\* is created.
C5_CallOrder ==
    LET calls == ApiCalls
        order == << "health.check", "destinations.list",
                    "tenants.get_token", "destinations.list" >>
        token == calls[3].res
        nonEmpty == /\ ~token.isNone /\ token.hasToken
                    /\ token.token # None /\ token.token # Some("")
    IN /\ Len(calls) <= 4
       /\ \A i \in 1..Len(calls) :
             /\ calls[i].ev = order[i]
             /\ calls[i].client = IF i = 4 THEN "jwt" ELSE "admin"
             /\ calls[i].arg = IF i \in { 2, 3 } THEN env["TENANT_ID"] ELSE None
             /\ \A j \in 1..(i - 1) : ~calls[j].raised
       /\ Len(calls) = 4 => nonEmpty
       /\ (Len(calls) >= 3 /\ ~calls[3].raised /\ ~nonEmpty) =>
             /\ out[Len(out)] \in { "Could not obtain tenant token.",
                                    "--- Example finished ---" }
             /\ \E k \in 1..Len(out) : out[k] = "Could not obtain tenant token."
             /\ jwtc.state = "none"
             /\ Len(calls) = 3

\* all four calls were made
C5_Witness ==
    /\ Len(ApiCalls) = 4
    /\ pc = "finished"

\* every Exception an API call raised has been caught and its message printed
AllCaught ==
    /\ pc # "crashed"
    /\ \A i \in 1..Len(trace) :
          trace[i].raised =>
              \E k \in 1..Len(out), e \in Errors :
                  out[k] = ( IF trace[i].client = "jwt"
                             THEN "Error listing destinations with JWT: "
                             ELSE "Error during admin operations: " ) \o e

\* C6: when all three variables are set, whatever API calls raise, the
\* exception is caught and printed and never leaves run(), and run()
\* eventually prints '--- Example finished ---' and returns.
C6_AlwaysFinishes ==
    /\ [](Unset = {} => AllCaught)
    /\ (Unset = {}) ~> ( /\ pc = "finished"
                         /\ out[Len(out)] = "--- Example finished ---" )

\* run() returned after an API call raised
C6_Witness ==
    /\ pc = "finished"
    /\ \E i \in 1..Len(trace) : trace[i].raised /\ trace[i].client = "jwt"

\* C10: every client that was opened is closed before run() returns, also
\* when an API call raises; the JWT client is opened only while the admin
\* client is open, is closed before the admin client is closed, and has the
\* admin client's server_url.
C10_ClientLifecycle ==
    /\ pc \in { "finished", "crashed", "exited" } =>
          admin.state # "open" /\ jwtc.state # "open"
    /\ pc = "finished" => admin.state = "closed"
    /\ jwtc.state = "open" => admin.state = "open"
    /\ admin.state = "closed" => jwtc.state # "open"
    /\ (jwtc.state = "closed" /\ admin.state = "closed") =>
          IndexOf("close", "jwt") < IndexOf("close", "admin")
    /\ jwtc.state # "none" =>
          /\ IndexOf("open", "admin") < IndexOf("open", "jwt")
          /\ jwtc.server_url = admin.server_url
          /\ admin.server_url = env["SERVER_URL"][1] \o "/api/v1"
    /\ \A c \in { "admin", "jwt" } :
          Cardinality({ i \in 1..Len(trace) :
                          trace[i].ev = "open" /\ trace[i].client = c }) <= 1

\* run() returned with both clients closed after the JWT call raised
C10_Witness ==
    /\ pc = "finished"
    /\ jwtc.state = "closed" /\ admin.state = "closed"
    /\ \E i \in 1..Len(trace) : trace[i].raised

\* ------------------------------------------------------------------------
\* Properties of errors/notfound_error.py
\* ------------------------------------------------------------------------

\* C9: the exception message is data.message when the server supplied one,
\* and otherwise the body argument, or raw_response.text when body is None
\* or empty; when data.message is None the message is that fallback, not a
\* rendering of None.
C9_MessageOrFallback ==
    pc = "constructed" =>
        LET fallback == IF nf.body = None \/ nf.body = Some("")
                        THEN Some(nf.text) ELSE nf.body
        IN nf.message = IF nf.data_message = None \/ nf.data_message = Some("")
                        THEN fallback ELSE nf.data_message

====
